---- MODULE Spec2Model ----
(***************************************************************************)
(* Model of bill-reporter: the incremental sync (main.py) and the          *)
(* on-demand generator (generate_bill_report.py) over one BILL table and   *)
(* one output directory.                                                   *)
(*                                                                         *)
(* A TIME string is modelled by its year, its month and its shape:         *)
(*   "std"   'YYYY-MM-DD HH:MM:SS'   (month zero padded)                    *)
(*   "nopad" 'YYYY-M-DD HH:MM:SS'    (one digit month, months 1..9 only)    *)
(*   "slash" 'YYYY/MM/DD HH:MM:SS'   (another separator)                    *)
(* SUBSTR, LIKE, split('-') and the string order are defined on the shape. *)
(* UPDATE_TIME, the wall clock and a file's mtime share one time unit.     *)
(***************************************************************************)
EXTENDS Integers, Sequences, FiniteSets, TLC

\* ------------------------------------------------------------ bounds
MaxRecs == 2
MaxTime == 2
MaxRuns == 2
MantissaBits == 10    \* bits of a float's significand (53 in the build)
MaxRows == 2          \* rows with an amount
CentSpan == 24        \* amounts run from 4.00 to 4.00 + CentSpan cents

\* Python's None, SQL's NULL, a file that does not exist
None == -1

Years == {2024, 2025}
Periods == {<<2024, 12>>, <<2025, 1>>}
Expense == "expense"     \* TYPE = '消费'
Other == "income"        \* any other TYPE

\* the shapes stored for a period: a one digit month can lose its zero
FormatsOf(p) == IF p[2] < 10 THEN {"std", "nopad"} ELSE {"std", "slash"}

\* the rows the ingestion process may store
RecordUniverse ==
    UNION {{[y |-> p[1], m |-> p[2], fmt |-> f, type |-> Expense, upd |-> u] :
               f \in FormatsOf(p), u \in 0..MaxTime} : p \in Periods}
    \cup {[y |-> 2025, m |-> 1, fmt |-> "std", type |-> Other, upd |-> u] : u \in 0..MaxTime}

NoRec == [y |-> 0, m |-> 0, fmt |-> "none", type |-> "none", upd |-> 0]

RecIds == 1..MaxRecs

\* ------------------------------------------------------------ keys and files
MonthKey(y, m) == [kind |-> "month", y |-> y, m |-> m]
YearKey(y) == [kind |-> "year", y |-> y, m |-> 0]
AllTime == [kind |-> "summary", y |-> 0, m |-> 0]
NoKey == [kind |-> "none", y |-> 0, m |-> 0]

Keys == {MonthKey(p[1], p[2]) : p \in Periods} \cup {YearKey(y) : y \in Years} \cup {AllTime}

NoDoc == [rows |-> {}, years |-> {}, recent |-> <<>>, wm |-> None]
NoFile == [mtime |-> None, doc |-> NoDoc, complete |-> FALSE]

\* ------------------------------------------------------------ SQL on the model
\* a variant without the WHERE clause
ExpenseIdsAnyType(st) == {i \in RecIds : st[i].type # "none"}

\* WHERE TYPE = '消费'
ExpenseIds(st) == {i \in RecIds : st[i].type = Expense}

\* SUBSTR(TIME, 1, 7)
Prefix7(r) == [y |-> r.y, m |-> r.m, fmt |-> r.fmt]

\* TIME LIKE 'YYYY-MM-%'
LikeMonth(r, y, m) == r.fmt = "std" /\ r.y = y /\ r.m = m

\* TIME LIKE 'YYYY-%'
LikeYear(r, y) == r.fmt \in {"std", "nopad"} /\ r.y = y

SetMax(S) == CHOOSE x \in S : \A z \in S : z <= x

\* MAX(UPDATE_TIME) over the rows ids, NULL over no row
MaxUpdate(st, ids) == IF ids = {} THEN None ELSE SetMax({st[i].upd : i \in ids})

\* the rank of a SUBSTR(TIME, 1, 7) value in string order: the year, then the
\* fifth character ('-' < '/'), the sixth (a digit), the seventh ('-' < a digit)
OrdKey(g) ==
    LET c5 == IF g.fmt = "slash" THEN 1 ELSE 0
        c6 == IF g.fmt = "nopad" THEN g.m ELSE g.m \div 10
        c7 == IF g.fmt = "nopad" THEN 0 ELSE 1 + (g.m % 10)
    IN  ((g.y * 2 + c5) * 10 + c6) * 11 + c7

\* ORDER BY year_month
RECURSIVE SortGroups(_)
SortGroups(S) ==
    IF S = {} THEN <<>>
    ELSE LET x == CHOOSE a \in S : \A b \in S : OrdKey(a) <= OrdKey(b)
         IN  <<x>> \o SortGroups(S \ {x})

\* ORDER BY year
RECURSIVE SortYears(_)
SortYears(S) ==
    IF S = {} THEN <<>>
    ELSE LET x == CHOOSE a \in S : \A b \in S : a <= b
         IN  <<x>> \o SortYears(S \ {x})

\* if update_time:   (None and 0 are both false)
Truthy(v) == v # None /\ v # 0

\* GROUP BY SUBSTR(TIME, 1, 7) ORDER BY year_month
MonthGroups(st) == SortGroups({Prefix7(st[i]) : i \in ExpenseIds(st)})

GroupUpdate(st, g) == MaxUpdate(st, {i \in ExpenseIds(st) : Prefix7(st[i]) = g})

\* int(year_month.split('-')[1]) raises IndexError when there is no '-'
SplitRaises(g) == g.fmt = "slash"

\* the loop filling monthly_times raises on the first parsed group it cannot split
MonthlyRaises(st) ==
    \E i \in ExpenseIds(st) :
        /\ SplitRaises(Prefix7(st[i]))
        /\ Truthy(GroupUpdate(st, Prefix7(st[i])))

\* monthly_times[(year_int, month_int)] = update_time, in dict order
RECURSIVE PutMonths(_, _, _)
PutMonths(st, gs, acc) ==
    IF gs = <<>> THEN acc
    ELSE LET g == Head(gs)
             w == GroupUpdate(st, g)
             hit == {j \in 1..Len(acc) : acc[j].y = g.y /\ acc[j].m = g.m}
             nxt == IF ~Truthy(w) THEN acc
                    ELSE IF hit = {} THEN Append(acc, [kind |-> "month", y |-> g.y, m |-> g.m, w |-> w])
                    ELSE [j \in 1..Len(acc) |-> IF j \in hit THEN [acc[j] EXCEPT !.w = w] ELSE acc[j]]
         IN  PutMonths(st, Tail(gs), nxt)

MonthlyTimes(st) == PutMonths(st, MonthGroups(st), <<>>)

\* GROUP BY SUBSTR(TIME, 1, 4) ORDER BY year
YearUpdate(st, y) == MaxUpdate(st, {i \in ExpenseIds(st) : st[i].y = y})

AnnualTimes(st) ==
    LET ys == SortYears({st[i].y : i \in ExpenseIds(st)})
        keep == SelectSeq(ys, LAMBDA y : Truthy(YearUpdate(st, y)))
    IN  [j \in 1..Len(keep) |-> [kind |-> "year", y |-> keep[j], m |-> 0, w |-> YearUpdate(st, keep[j])]]

\* SELECT MAX(UPDATE_TIME) FROM BILL WHERE TYPE = '消费'
SummaryTime(st) ==
    LET w == MaxUpdate(st, ExpenseIds(st)) IN IF Truthy(w) THEN w ELSE None

\* ------------------------------------------------------------ detail queries
\* get_monthly_data: the rows of one month, each with its UPDATE_TIME
get_monthly_data(st, y, m) ==
    {<<i, st[i].upd>> : i \in {j \in ExpenseIds(st) : LikeMonth(st[j], y, m)}}

\* get_annual_data: one row per SUBSTR(TIME, 1, 7) of the year
get_annual_data(st, y) ==
    LET ids == {i \in ExpenseIds(st) : LikeYear(st[i], y)}
    IN  {[ym |-> g,
          n |-> Cardinality({i \in ids : Prefix7(st[i]) = g}),
          latest |-> MaxUpdate(st, {i \in ids : Prefix7(st[i]) = g})] :
            g \in {Prefix7(st[i]) : i \in ids}}

\* get_all_years_data: one row per SUBSTR(TIME, 1, 4)
get_all_years_data(st) ==
    {[y |-> y,
      n |-> Cardinality({i \in ExpenseIds(st) : st[i].y = y}),
      latest |-> YearUpdate(st, y)] : y \in {st[i].y : i \in ExpenseIds(st)}}

\* a variant that does not step back over the turn of the year
MonthBackSameYear(y, m, i) == <<y, m - i>>

\* the month i months before (y, m)
MonthBack(y, m, i) == IF m - i <= 0 THEN <<y - 1, m - i + 12>> ELSE <<y, m - i>>

\* get_recent_3_months_data: the three months ending at MAX(TIME), newest first;
\* nothing when there is no row or strptime rejects MAX(TIME)
get_recent_3_months_data(st) ==
    IF ExpenseIds(st) = {} THEN <<>>
    ELSE LET gs == MonthGroups(st)
             top == gs[Len(gs)]
         IN  IF top.fmt = "slash" THEN <<>>
             ELSE [k \in 1..3 |->
                     LET ym == MonthBack(top.y, top.m, k - 1)
                         ids == {i \in ExpenseIds(st) : LikeMonth(st[i], ym[1], ym[2])}
                     IN  [y |-> ym[1], m |-> ym[2], n |-> Cardinality(ids),
                          latest |-> MaxUpdate(st, ids)]]

\* get_latest_update_time and its annual and summary siblings: the text shown
DisplayTime(w) == IF Truthy(w) THEN w ELSE None

get_latest_update_time(st, y, m) ==
    DisplayTime(MaxUpdate(st, {i \in ExpenseIds(st) : LikeMonth(st[i], y, m)}))

get_annual_latest_update_time(st, y) ==
    DisplayTime(MaxUpdate(st, {i \in ExpenseIds(st) : LikeYear(st[i], y)}))

get_summary_latest_update_time(st) == DisplayTime(MaxUpdate(st, ExpenseIds(st)))

\* ------------------------------------------------------------ rendering
generate_html(data, update_time) ==
    [rows |-> data, years |-> {}, recent |-> <<>>, wm |-> update_time]

generate_annual_html(monthly_data, update_time) ==
    [rows |-> monthly_data, years |-> {}, recent |-> <<>>, wm |-> update_time]

generate_summary_html(recent_months_data, all_years_data, update_time) ==
    [rows |-> {}, years |-> all_years_data, recent |-> recent_months_data, wm |-> update_time]

\* the rows a key's detail query returns; a failed query returns no row
DetailOf(st, k, ok) ==
    IF ~ok THEN NoDoc
    ELSE IF k.kind = "month" THEN generate_html(get_monthly_data(st, k.y, k.m),
                                               get_latest_update_time(st, k.y, k.m))
    ELSE IF k.kind = "year" THEN generate_annual_html(get_annual_data(st, k.y),
                                                      get_annual_latest_update_time(st, k.y))
    ELSE generate_summary_html(get_recent_3_months_data(st), get_all_years_data(st),
                               get_summary_latest_update_time(st))

\* a variant that takes an empty result for data
HasDataAlways(d) == TRUE

\* if not data: return False
HasData(d) == d.rows # {} \/ d.years # {} \/ d.recent # <<>>

\* ------------------------------------------------------------ the comparator
get_html_file_modification_time(f) == f.mtime

\* variants of the comparison: >= for >, an existing file never rebuilt, any
\* difference taken for staleness, every present watermark taken for stale
needs_regeneration_or_equal(db_time, html_time) ==
    IF db_time = None THEN FALSE
    ELSE IF html_time = None THEN TRUE
    ELSE db_time >= html_time

needs_regeneration_only_if_missing(db_time, html_time) ==
    IF db_time = None THEN FALSE ELSE html_time = None

needs_regeneration_if_differs(db_time, html_time) ==
    IF db_time = None THEN FALSE
    ELSE IF html_time = None THEN TRUE
    ELSE db_time # html_time

needs_regeneration_always(db_time, html_time) == db_time # None

needs_regeneration(db_time, html_time) ==
    IF db_time = None THEN FALSE
    ELSE IF html_time = None THEN TRUE
    ELSE db_time > html_time

\* ------------------------------------------------------------ state
VARIABLES
    db,               \* the BILL table: record slot -> row, NoRec for a free slot
    dbfile,           \* the database file exists
    files,            \* the output directory: key -> artifact, NoFile when absent
    outdir,           \* the output directory exists
    clock,            \* the wall clock
    conn,             \* "closed" | "open"
    pc,               \* "idle" | "scan" | "write" | "exited"
    mode,             \* the entry point running or just exited: "none" | "sync" | "gen"
    monthly_times, annual_times, summary_time,
    idx,              \* position of the three loops in Worklist
    generated_count, skipped_monthly, skipped_annual, skipped_summary,
    cur,              \* the key whose file is open for writing
    pending,          \* html_content
    exit,             \* "none" | "0" | "1" | "exception" | "killed"
    runs,             \* entry point invocations so far
    \* history of the current run
    started,          \* the clock when it started
    log,              \* its comparisons: key, db_time w, html_time t, and the result
                      \* "fresh" | "nodata" | "stale"
    written,          \* the keys whose file it wrote completely
    qfailed,          \* the query that failed: "none" | "monthly" | "annual" | "summary" | "detail"
    failure,          \* the step that raised: "none" | "parse" | "render" | "open" | "write"
    \* history across runs
    clean,            \* start clock of the last sync run, if it returned 0 with no
                      \* failed query and nothing has acted since; else None
    changed,          \* the table changed since the last sync run that returned 0
    raised,           \* keys whose watermark rose since the last sync run that returned 0
    \* the amounts of one year and the total of the page rendered from them
    amounts,          \* rows of BILL: month, the decimal entered, AMOUNT as stored
    page              \* the page rendered: its kind, its month, the total shown in cents

vars == <<db, dbfile, files, outdir, clock, conn, pc, mode, monthly_times, annual_times,
          summary_time, idx, generated_count, skipped_monthly, skipped_annual,
          skipped_summary, cur, pending, exit, runs, started, log, written,
          qfailed, failure, clean, changed, raised, amounts, page>>

store == <<db, dbfile>>
tables == <<monthly_times, annual_times, summary_time>>
counters == <<generated_count, skipped_monthly, skipped_annual, skipped_summary>>
runhist == <<started, log, written, qfailed, failure>>
idlehist == <<clean, changed, raised>>
totals == <<amounts, page>>
vars_sync == <<db, dbfile, files, outdir, clock, conn, pc, mode, monthly_times, annual_times,
               summary_time, idx, generated_count, skipped_monthly, skipped_annual,
               skipped_summary, cur, pending, exit, runs, started, log, written,
               qfailed, failure, clean, changed, raised>>

NoPage == [kind |-> "none", m |-> 0, total |-> 0]

Compared(k, w, t, result) == [key |-> k, w |-> w, t |-> t, result |-> result]

Examined == {e.key : e \in log}

\* a variant in which a query empties the table
AfterSelectDeleting(st) == [i \in RecIds |-> NoRec]

\* SELECT leaves the table as it is
AfterSelect(st) == st

KeyOf(e) == [kind |-> e.kind, y |-> e.y, m |-> e.m]

SummaryEntry(w) == IF Truthy(w) THEN <<[kind |-> "summary", y |-> 0, m |-> 0, w |-> w]>> ELSE <<>>

\* the keys of the three loops of main, in the order main visits them
WorklistOf(mt, at, sm) == mt \o at \o SummaryEntry(sm)

Worklist == WorklistOf(monthly_times, annual_times, summary_time)

\* what get_database_update_times would return for st when no query fails
KeysOf(st) == WorklistOf(MonthlyTimes(st), AnnualTimes(st), SummaryTime(st))

\* the watermark the update-time queries give key k, None when they give none
WatermarkOf(st, k) ==
    LET wl == KeysOf(st)
        hit == {j \in 1..Len(wl) : KeyOf(wl[j]) = k}
    IN  IF hit = {} THEN None ELSE wl[CHOOSE j \in hit : TRUE].w

Init ==
    /\ db \in [RecIds -> RecordUniverse \cup {NoRec}]
    /\ \A i \in RecIds : i > 1 /\ db[i] # NoRec => db[i - 1] # NoRec
    /\ dbfile \in BOOLEAN
    /\ ~dbfile => \A i \in RecIds : db[i] = NoRec
    /\ files = [k \in Keys |-> NoFile]
    /\ outdir = FALSE
    /\ clock = 1
    /\ conn = "closed"
    /\ pc = "idle"
    /\ mode = "none"
    /\ monthly_times = <<>> /\ annual_times = <<>> /\ summary_time = None
    /\ idx = 1
    /\ generated_count = 0 /\ skipped_monthly = 0 /\ skipped_annual = 0 /\ skipped_summary = 0
    /\ cur = NoKey
    /\ pending = NoDoc
    /\ exit = "none"
    /\ runs = 0
    /\ started = None /\ log = {} /\ written = {}
    /\ qfailed = "none" /\ failure = "none"
    /\ clean = None
    /\ changed = FALSE
    /\ raised = {}
    /\ amounts = <<>> /\ page = NoPage

\* a variant without the finally clause
ExitLeavingOpen(status) == pc' = "exited" /\ conn' = conn /\ exit' = status

\* the process ends: a return of main, sys.exit, or an exception that leaves
\* main through "finally: conn.close()"
Exit(status) == pc' = "exited" /\ conn' = "closed" /\ exit' = status

\* ------------------------------------------------------------ incremental sync
\* main of main.py up to the first loop: the checks, the connection, the
\* update-time queries.  qf names the query that fails, if one does.
SyncStart(connects, qf) ==
    /\ UNCHANGED totals
    /\ pc = "idle" /\ runs < MaxRuns
    /\ runs' = runs + 1
    /\ mode' = "sync"
    /\ started' = clock
    /\ UNCHANGED <<dbfile, files, clock, idx, counters, cur, pending, log, written,
                   idlehist>>
    /\ IF ~dbfile
       THEN /\ connects /\ qf = "none"
            /\ Exit("1")
            /\ UNCHANGED <<db, outdir, tables, qfailed, failure>>
       ELSE /\ outdir' = TRUE
            /\ IF ~connects
               THEN /\ qf = "none"
                    /\ Exit("1")
                    /\ UNCHANGED <<db, tables, qfailed, failure>>
               ELSE IF qf # "monthly" /\ MonthlyRaises(db)
               THEN /\ qf = "none"
                    /\ Exit("exception")
                    /\ failure' = "parse"
                    /\ db' = AfterSelect(db)
                    /\ UNCHANGED <<tables, qfailed>>
               ELSE /\ pc' = "scan" /\ conn' = "open"
                    /\ db' = AfterSelect(db)
                    /\ qfailed' = qf
                    /\ monthly_times' = (IF qf = "none" THEN MonthlyTimes(db) ELSE <<>>)
                    /\ annual_times' = (IF qf = "none" THEN AnnualTimes(db) ELSE <<>>)
                    /\ summary_time' = (IF qf = "none" THEN SummaryTime(db) ELSE None)
                    /\ UNCHANGED <<exit, failure>>

\* one iteration of a loop of main: the comparison, then generate_*_bill up to
\* the open() that truncates the file.  fault names what goes wrong, if anything
\* does; a run meets at most one failed query.
Process(fault) ==
    /\ UNCHANGED totals
    /\ pc = "scan" /\ idx <= Len(Worklist)
    /\ fault # "none" => qfailed = "none"
    /\ LET e == Worklist[idx]
           k == KeyOf(e)
           html_time == get_html_file_modification_time(files[k])
           doc == DetailOf(db, k, fault # "query")
       IN  /\ UNCHANGED <<dbfile, outdir, clock, mode, tables, runs, started, written,
                          idlehist>>
           /\ IF ~needs_regeneration(e.w, html_time)
              THEN /\ fault = "none"
                   /\ skipped_monthly' = (IF k.kind = "month" THEN skipped_monthly + 1 ELSE skipped_monthly)
                   /\ skipped_annual' = (IF k.kind = "year" THEN skipped_annual + 1 ELSE skipped_annual)
                   /\ skipped_summary' = (IF k.kind = "summary" THEN 1 ELSE skipped_summary)
                   /\ log' = log \cup {Compared(k, e.w, html_time, "fresh")}
                   /\ idx' = idx + 1
                   /\ UNCHANGED <<db, files, conn, pc, generated_count, cur, pending, exit,
                                  qfailed, failure>>
              ELSE IF ~HasData(doc)
              THEN /\ fault \in {"none", "query"}
                   /\ log' = log \cup {Compared(k, e.w, html_time, "nodata")}
                   /\ qfailed' = (IF fault = "query" THEN "detail" ELSE qfailed)
                   /\ idx' = idx + 1
                   /\ db' = AfterSelect(db)
                   /\ UNCHANGED <<files, conn, pc, counters, cur, pending, exit, failure>>
              ELSE IF fault \in {"render", "open"}
              THEN /\ Exit("exception")
                   /\ failure' = fault
                   /\ log' = log \cup {Compared(k, e.w, html_time, "stale")}
                   /\ db' = AfterSelect(db)
                   /\ UNCHANGED <<files, counters, cur, pending, idx, qfailed>>
              ELSE /\ fault = "none"
                   /\ files' = [files EXCEPT ![k] = [mtime |-> clock, doc |-> NoDoc, complete |-> FALSE]]
                   /\ cur' = k /\ pending' = doc /\ pc' = "write"
                   /\ log' = log \cup {Compared(k, e.w, html_time, "stale")}
                   /\ db' = AfterSelect(db)
                   /\ UNCHANGED <<conn, counters, idx, exit, qfailed, failure>>

\* a variant that does not count
CountGeneratedNot(n) == n

\* generated_count += 1
CountGenerated(n) == n + 1

\* f.write(html_content) and the close of the file; then the caller counts it
WriteDone ==
    /\ UNCHANGED totals
    /\ pc = "write"
    /\ files' = [files EXCEPT ![cur] = [mtime |-> clock, doc |-> pending, complete |-> TRUE]]
    /\ written' = written \cup {cur}
    /\ cur' = NoKey /\ pending' = NoDoc
    /\ UNCHANGED <<store, outdir, clock, mode, tables, skipped_monthly, skipped_annual,
                   skipped_summary, runs, started, log, qfailed, failure, idlehist>>
    /\ IF mode = "sync"
       THEN /\ generated_count' = CountGenerated(generated_count)
            /\ idx' = idx + 1 /\ pc' = "scan"
            /\ UNCHANGED <<conn, exit>>
       ELSE /\ Exit("0")
            /\ UNCHANGED <<generated_count, idx>>

\* f.write raises (the disk is full): the file stays as open() left it
WriteFail ==
    /\ UNCHANGED totals
    /\ pc = "write"
    /\ Exit("exception")
    /\ failure' = "write"
    /\ UNCHANGED <<store, files, outdir, clock, mode, tables, idx, counters, cur, pending,
                   runs, started, log, written, qfailed, idlehist>>

\* the process is killed between open() and the end of f.write
Crash ==
    /\ UNCHANGED totals
    /\ pc = "write"
    /\ Exit("killed")
    /\ UNCHANGED <<store, files, outdir, clock, mode, tables, idx, counters, cur, pending,
                   runs, started, log, written, qfailed, failure, idlehist>>

\* the three loops are over: the totals are printed, main returns 0
SyncFinish ==
    /\ UNCHANGED totals
    /\ pc = "scan" /\ mode = "sync" /\ idx > Len(Worklist)
    /\ Exit("0")
    /\ UNCHANGED <<store, files, outdir, clock, mode, tables, idx, counters, cur, pending,
                   runs, started, log, written, qfailed, failure, idlehist>>

\* ------------------------------------------------------------ on-demand generator
\* --month must be within 1..12
MonthArgOk(month) == month = None \/ (1 <= month /\ month <= 12)

\* the page the arguments select: --summary, or no year, is the summary
TargetOf(year, month, summary) ==
    IF summary \/ year = None THEN AllTime
    ELSE IF month # None THEN MonthKey(year, month)
    ELSE YearKey(year)

\* the command lines tried: each page, each default, a month out of range
GenArgs ==
    {[year |-> p[1], month |-> p[2], summary |-> FALSE] : p \in Periods}
    \cup {[year |-> y, month |-> None, summary |-> FALSE] : y \in Years}
    \cup {[year |-> None, month |-> None, summary |-> b] : b \in BOOLEAN}
    \cup {[year |-> 2025, month |-> None, summary |-> TRUE],
          [year |-> None, month |-> 1, summary |-> FALSE],
          [year |-> 2025, month |-> 13, summary |-> FALSE],
          [year |-> None, month |-> 13, summary |-> TRUE]}

\* main of generate_bill_report.py up to the open() that truncates the file
Generate(a, connects, fault) ==
    /\ UNCHANGED totals
    /\ pc = "idle" /\ runs < MaxRuns
    /\ runs' = runs + 1
    /\ mode' = "gen"
    /\ started' = clock
    /\ UNCHANGED <<dbfile, clock, tables, idx, counters, log, written, idlehist>>
    /\ LET k == TargetOf(a.year, a.month, a.summary)
           doc == DetailOf(db, k, fault # "query")
       IN  IF ~MonthArgOk(a.month)
           THEN /\ fault = "none" /\ connects
                /\ Exit("1")
                /\ UNCHANGED <<db, files, outdir, cur, pending, qfailed, failure>>
           ELSE IF ~dbfile \/ ~connects
           THEN /\ fault = "none" /\ (dbfile \/ connects)
                /\ Exit("0")
                /\ UNCHANGED <<db, files, outdir, cur, pending, qfailed, failure>>
           ELSE /\ outdir' = TRUE
                /\ db' = AfterSelect(db)
                /\ IF ~HasData(doc)
                   THEN /\ fault \in {"none", "query"}
                        /\ Exit("0")
                        /\ qfailed' = (IF fault = "query" THEN "detail" ELSE "none")
                        /\ UNCHANGED <<files, cur, pending, failure>>
                   ELSE IF fault \in {"render", "open"}
                   THEN /\ Exit("exception")
                        /\ failure' = fault
                        /\ UNCHANGED <<files, cur, pending, qfailed>>
                   ELSE /\ fault = "none"
                        /\ files' = [files EXCEPT ![k] = [mtime |-> clock, doc |-> NoDoc, complete |-> FALSE]]
                        /\ cur' = k /\ pending' = doc /\ pc' = "write" /\ conn' = "open"
                        /\ UNCHANGED <<exit, qfailed, failure>>

\* ------------------------------------------------------------ environment
\* the exit status is collected; nothing of the process is left
Reap ==
    /\ UNCHANGED totals
    /\ pc = "exited"
    /\ pc' = "idle" /\ mode' = "none" /\ exit' = "none"
    /\ monthly_times' = <<>> /\ annual_times' = <<>> /\ summary_time' = None
    /\ idx' = 1
    /\ generated_count' = 0 /\ skipped_monthly' = 0 /\ skipped_annual' = 0
    /\ skipped_summary' = 0
    /\ cur' = NoKey /\ pending' = NoDoc
    /\ started' = None /\ log' = {} /\ written' = {}
    /\ qfailed' = "none" /\ failure' = "none"
    /\ clean' = (IF mode = "sync" /\ exit = "0" /\ qfailed = "none" THEN started ELSE None)
    /\ changed' = (IF mode = "sync" /\ exit = "0" THEN FALSE ELSE changed)
    /\ raised' = (IF mode = "sync" /\ exit = "0" THEN {} ELSE raised)
    /\ UNCHANGED <<store, files, outdir, clock, conn, runs>>

\* time passes between two runs
Tick ==
    /\ UNCHANGED totals
    /\ pc = "idle" /\ runs < MaxRuns
    /\ clock < MaxTime
    /\ clock' = clock + 1
    /\ UNCHANGED <<store, files, outdir, conn, pc, mode, tables, idx, counters, cur,
                   pending, exit, runs, runhist, idlehist>>

\* the ingestion process inserts a row or updates one (UPDATE_TIME never decreases)
\* between two runs; what it stored before the first run is in Init
Ingest(i, r) ==
    /\ UNCHANGED totals
    /\ pc = "idle" /\ 0 < runs /\ runs < MaxRuns
    /\ IF db[i] = NoRec
       THEN IF i = 1 THEN TRUE ELSE db[i - 1] # NoRec
       ELSE r = [db[i] EXCEPT !.upd = r.upd] /\ r.upd > db[i].upd
    /\ db' = [db EXCEPT ![i] = r]
    /\ dbfile' = TRUE
    /\ raised' = raised \cup {k \in Keys : WatermarkOf(db', k) > WatermarkOf(db, k)}
    /\ changed' = TRUE
    /\ UNCHANGED <<clean, files, outdir, clock, conn, pc, mode, tables, idx, counters, cur,
                   pending, exit, runs, runhist>>

\* the ingestion process does the same while a sync run is between two steps:
\* after the update-time queries, or after a key's detail query and before the
\* end of the write.  The row is stamped with the time of the clock.  The last
\* run of a behaviour is left alone, as Ingest leaves the time after it.
IngestDuring(i, r) ==
    /\ UNCHANGED totals
    /\ pc \in {"scan", "write"} /\ mode = "sync" /\ runs < MaxRuns
    /\ r.upd = clock
    /\ IF db[i] = NoRec
       THEN IF i = 1 THEN TRUE ELSE db[i - 1] # NoRec
       ELSE r = [db[i] EXCEPT !.upd = r.upd] /\ r.upd > db[i].upd
    /\ db' = [db EXCEPT ![i] = r]
    /\ raised' = raised \cup {k \in Keys : WatermarkOf(db', k) > WatermarkOf(db, k)}
    /\ changed' = TRUE
    /\ UNCHANGED <<dbfile, clean, files, outdir, clock, conn, pc, mode, tables, idx, counters,
                   cur, pending, exit, runs, runhist>>

\* the incremental sync, run again and again, and its environment
Next ==
    \/ \E c \in BOOLEAN, qf \in {"none", "monthly", "annual", "summary"} : SyncStart(c, qf)
    \/ \E f \in {"none", "query", "render", "open"} : Process(f)
    \/ WriteDone
    \/ WriteFail
    \/ Crash
    \/ SyncFinish
    \/ Reap
    \/ Tick
    \/ \E i \in RecIds, r \in RecordUniverse : Ingest(i, r)

Spec == Init /\ [][Next]_vars

\* both entry points
NextAll ==
    \/ Next
    \/ \E a \in GenArgs, c \in BOOLEAN, f \in {"none", "query", "render", "open"} :
           Generate(a, c, f)

SpecAll == Init /\ [][NextAll]_vars

\* the incremental sync with the ingestion process running beside it
NextConcurrent ==
    \/ Next
    \/ \E i \in RecIds, r \in RecordUniverse : IngestDuring(i, r)

SpecConcurrent == Init /\ [][NextConcurrent]_vars

\* ------------------------------------------------------------ amounts and totals
\* A float is held as a whole number of units of 2^-FracBits; with MantissaBits
\* bits every float from 4.0 upward is such a number.
FracBits == MantissaBits - 3
Unit == 2 ^ FracBits

\* num / den rounded to a whole number, a tie going to the even one
RoundHalfEven(num, den) ==
    LET q == num \div den
        r == num % den
    IN  IF 2 * r > den \/ (2 * r = den /\ q % 2 = 1) THEN q + 1 ELSE q

\* the spacing, in units, of the floats round num / den units
RECURSIVE Ulp(_, _, _)
Ulp(num, den, g) == IF num < (2 ^ MantissaBits) * den * g THEN g ELSE Ulp(num, den, 2 * g)

\* the float nearest to n / d
ToFloat(n, d) ==
    IF n = 0 THEN 0
    ELSE LET g == Ulp(n * Unit, d, 1) IN RoundHalfEven(n * Unit, d * g) * g

\* x + y on floats
FloatAdd(x, y) == ToFloat(x + y, Unit)

\* the decimals entered, in cents, and the months they fall in
LowCents == 4 * 100
Cents == LowCents..(LowCents + CentSpan)
TotalMonths == {1, 2}

\* AMOUNT is a REAL column: the decimal c cents is stored as a float
StoredAmount(c) == ToFloat(c, 100)

RowUniverse == {[m |-> m, dec |-> c, amount |-> StoredAmount(c)] : m \in TotalMonths, c \in Cents}

\* str(row[1]) is the shortest decimal that reads back as the float, and
\* Decimal() of it is exact: the cents of the decimal entered
DecimalOfStr(f) == CHOOSE c \in Cents : ToFloat(c, 100) = f

\* the rows of month m, in table order
RowsOfMonth(rows, m) == SelectSeq(rows, LAMBDA r : r.m = m)

\* calculate_total_amount: total += Decimal(str(row[1])), in cents
RECURSIVE calculate_total_amount(_)
calculate_total_amount(data) ==
    IF data = <<>> THEN 0
    ELSE DecimalOfStr(Head(data).amount) + calculate_total_amount(Tail(data))

\* SUM(AMOUNT) of a group, and sum([float(row[1]) ...]): float additions in order
RECURSIVE FloatSum(_, _)
FloatSum(xs, acc) == IF xs = <<>> THEN acc ELSE FloatSum(Tail(xs), FloatAdd(acc, Head(xs)))

\* get_annual_data on the amounts: SUM(AMOUNT) per month, ORDER BY month ASC
AnnualAmounts(rows) ==
    LET ms == SortYears({rows[j].m : j \in 1..Len(rows)})
    IN  [j \in 1..Len(ms) |->
            FloatSum([i \in 1..Len(RowsOfMonth(rows, ms[j])) |-> RowsOfMonth(rows, ms[j])[i].amount], 0)]

\* format_amount: two fraction digits, in cents; exact on a Decimal, the nearest
\* to the float's value on a float
format_amount(amount) ==
    IF amount.kind = "decimal" THEN amount.v ELSE RoundHalfEven(amount.v * 100, Unit)

\* the total on the page of month m
MonthlyTotal(m) ==
    /\ page = NoPage /\ RowsOfMonth(amounts, m) # <<>>
    /\ page' = [kind |-> "month", m |-> m,
                total |-> format_amount([kind |-> "decimal",
                                         v |-> calculate_total_amount(RowsOfMonth(amounts, m))])]
    /\ UNCHANGED <<vars_sync, amounts>>

\* the total on the page of the year
AnnualTotal ==
    /\ page = NoPage /\ amounts # <<>>
    /\ page' = [kind |-> "year", m |-> 0,
                total |-> format_amount([kind |-> "float",
                                         v |-> FloatSum(AnnualAmounts(amounts), 0)])]
    /\ UNCHANGED <<vars_sync, amounts>>

\* some rows with amounts in an otherwise empty table, no page rendered yet
InitTotals ==
    /\ amounts \in UNION {[1..n -> RowUniverse] : n \in 1..MaxRows}
    /\ page = NoPage
    /\ db = [i \in RecIds |-> NoRec] /\ dbfile = TRUE
    /\ files = [k \in Keys |-> NoFile] /\ outdir = FALSE
    /\ clock = 1 /\ conn = "closed" /\ pc = "idle" /\ mode = "none"
    /\ monthly_times = <<>> /\ annual_times = <<>> /\ summary_time = None
    /\ idx = 1
    /\ generated_count = 0 /\ skipped_monthly = 0 /\ skipped_annual = 0 /\ skipped_summary = 0
    /\ cur = NoKey /\ pending = NoDoc /\ exit = "none" /\ runs = 0
    /\ started = None /\ log = {} /\ written = {}
    /\ qfailed = "none" /\ failure = "none"
    /\ clean = None /\ changed = FALSE /\ raised = {}

NextTotals ==
    \/ \E m \in TotalMonths : MonthlyTotal(m)
    \/ AnnualTotal

SpecTotals == InitTotals /\ [][NextTotals]_vars

\* ------------------------------------------------------------ properties
Exists(f) == f.mtime # None

\* a sync run has returned 0 and its process has not been collected yet
SyncOk == pc = "exited" /\ mode = "sync" /\ exit = "0"

\* the run before it returned 0 with no failed query, and since then nothing
\* but the clock has moved
AfterCleanRun == clean # None /\ ~changed

\* C1 as claimed: a sync run that follows a sync run, with no change to the
\* store in between, generates no artifact.
C1_SecondRunGeneratesNothing ==
    SyncOk /\ AfterCleanRun => generated_count = 0

\* C1 as amended: a sync run that follows a sync run which returned 0 with no
\* failed query, with no change to the store in between, generates no artifact,
\* provided no expense row's UPDATE_TIME is later than the clock at the start of
\* the first run.
C1_SecondRunGeneratesNothingIfNotFuture ==
    SyncOk /\ AfterCleanRun /\ (\A i \in ExpenseIds(db) : db[i].upd <= clean)
        => generated_count = 0 /\ written = {}

C1_Witness ==
    /\ SyncOk /\ AfterCleanRun /\ qfailed = "none"
    /\ \A i \in ExpenseIds(db) : db[i].upd <= clean
    /\ skipped_monthly = 2 /\ skipped_annual = 2 /\ skipped_summary = 1

C3_KeyWithDataHasArtifact ==
    SyncOk /\ qfailed = "none"
        => \A k \in Keys : HasData(DetailOf(db, k, TRUE)) => Exists(files[k])

\* C4: a key compared with an existing artifact is rebuilt if and only if its
\* watermark is greater than the artifact's last-write time; a key compared with
\* no artifact is rebuilt; a key with no watermark is never compared or written.
C4_StaleIffWatermarkAfterWrite ==
    mode = "sync"
        => /\ \A e \in log :
                 /\ e.w # None
                 /\ e.t # None => (e.result # "fresh" <=> e.w > e.t)
                 /\ e.t = None => e.result # "fresh"
           /\ \A k \in Keys : WatermarkOf(db, k) = None => k \notin Examined \cup written

C4_Witness ==
    /\ mode = "sync"
    /\ \E e \in log : e.t # None /\ e.w = e.t /\ e.result = "fresh"
    /\ \E e \in log : e.t # None /\ e.w > e.t /\ e.result = "stale"

\* the loop of main is about to compare key k, whose watermark is w
Comparing(k, w) ==
    /\ pc = "scan" /\ idx <= Len(Worklist)
    /\ k = KeyOf(Worklist[idx]) /\ w = Worklist[idx].w

\* C5: the step that compares a key whose artifact exists with a last-write
\* time not before the watermark leaves every artifact as it is, adds one to
\* the skipped count of the key's category and changes no other count.
C5_FreshKeyNoOutput ==
    [][\A k \in Keys, w \in 0..(MaxTime + 1) :
          Comparing(k, w) /\ Exists(files[k]) /\ files[k].mtime >= w
              => /\ files' = files
                 /\ generated_count' = generated_count
                 /\ skipped_monthly' = skipped_monthly + (IF k.kind = "month" THEN 1 ELSE 0)
                 /\ skipped_annual' = skipped_annual + (IF k.kind = "year" THEN 1 ELSE 0)
                 /\ skipped_summary' = skipped_summary + (IF k.kind = "summary" THEN 1 ELSE 0)
                 /\ pc' = "scan"]_vars

C5_Witness ==
    /\ pc = "scan" /\ skipped_monthly = 1 /\ skipped_annual = 1 /\ generated_count = 1
    /\ \E e \in log : e.result = "fresh" /\ e.t = e.w

\* C6: the step that finds a month or year key stale and gets no row from its
\* detail query, the query having failed or not, writes no file and leaves
\* generated_count as it is.
C6_NoRowsNoArtifact ==
    [][\A k \in Keys, w \in 0..(MaxTime + 1) :
          /\ Comparing(k, w) /\ k.kind \in {"month", "year"}
          /\ needs_regeneration(w, files[k].mtime)
          /\ \/ k.kind = "month" /\ get_monthly_data(db, k.y, k.m) = {}
             \/ k.kind = "year" /\ get_annual_data(db, k.y) = {}
             \/ qfailed' # qfailed
          => files' = files /\ generated_count' = generated_count /\ pc' = "scan"]_vars

C6_Witness ==
    /\ SyncOk /\ qfailed = "none"
    /\ \E e \in log : e.key.kind = "month" /\ e.result = "nodata" /\ ~Exists(files[e.key])
    /\ generated_count > 0

\* C7 as claimed: a sync run in which rendering or writing one key's artifact
\* raised still compares every key it enumerated and returns 0.
C7_FailureDoesNotStopTheRun ==
    pc = "exited" /\ mode = "sync" /\ failure \in {"render", "open", "write"}
        => exit = "0" /\ Examined = {KeyOf(Worklist[j]) : j \in 1..Len(Worklist)}

\* C8 as claimed: a sync run in which one of the three update-time queries
\* failed has still compared the keys the other two queries serve.
C8_QueryFailureTouchesItsKeysOnly ==
    SyncOk /\ qfailed \in {"monthly", "annual", "summary"}
        => LET others == (IF qfailed = "monthly" THEN <<>> ELSE MonthlyTimes(db))
                         \o (IF qfailed = "annual" THEN <<>> ELSE AnnualTimes(db))
                         \o (IF qfailed = "summary" THEN <<>> ELSE SummaryEntry(SummaryTime(db)))
           IN  \A j \in 1..Len(others) : KeyOf(others[j]) \in Examined

\* C9 as claimed: no sync run finds fresh an artifact that holds a part only of
\* a page.
C9_NoTruncatedArtifactJudgedFresh ==
    \A e \in log : e.result = "fresh" => files[e.key].complete

\* C10: no step of a run of either entry point changes the table or the
\* database file.
C10_StoreReadOnly ==
    [][pc # "idle" \/ pc' # "idle" => db' = db /\ dbfile' = dbfile]_vars

C10_Witness ==
    pc = "exited" /\ mode = "gen" /\ exit = "0" /\ written # {} /\ runs = MaxRuns
        /\ \E k \in Keys \ written : Exists(files[k]) /\ files[k].complete

\* the month the latest expense row lies in
LatestMonth(st) ==
    CHOOSE p \in {<<st[i].y, st[i].m>> : i \in ExpenseIds(st)} :
        \A i \in ExpenseIds(st) : st[i].y * 12 + st[i].m <= p[1] * 12 + p[2]

\* the calendar month before p
PrevMonth(p) == IF p[2] = 1 THEN <<p[1] - 1, 12>> ELSE <<p[1], p[2] - 1>>

\* the three calendar months ending at p, newest first
ThreeMonthsTo(p) == <<p, PrevMonth(p), PrevMonth(PrevMonth(p))>>

\* the expense rows of calendar month p
RowsIn(st, p) == {i \in ExpenseIds(st) : st[i].y = p[1] /\ st[i].m = p[2]}

\* the summary page is being written
WritingSummary == pc = "write" /\ cur = AllTime

\* every expense row's TIME has the form YYYY-MM-DD HH:MM:SS
AllStd(st) == \A i \in ExpenseIds(st) : st[i].fmt = "std"

\* C11 as claimed: whatever the expense rows, the recent months on a summary
\* page are exactly the three calendar months ending at the month of the latest
\* expense row, newest first, a month without expense rows carrying count 0.
C11_ThreeMonthsEndingAtLatest ==
    WritingSummary /\ ExpenseIds(db) # {}
        => /\ Len(pending.recent) = 3
           /\ \A j \in 1..3 :
                 LET p == ThreeMonthsTo(LatestMonth(db))[j]
                 IN  /\ pending.recent[j].y = p[1] /\ pending.recent[j].m = p[2]
                     /\ RowsIn(db, p) = {} => pending.recent[j].n = 0

\* C11 as amended: when every expense row's TIME has the form
\* YYYY-MM-DD HH:MM:SS, the recent months on a summary page are exactly the three
\* calendar months ending at the month of the latest expense row, newest first,
\* over the turn of the year too, each with the count and the latest
\* UPDATE_TIME of its expense rows, 0 and none for a month without rows.
C11_ThreeMonthsEndingAtLatestIfWellFormed ==
    WritingSummary /\ ExpenseIds(db) # {} /\ AllStd(db)
        => /\ Len(pending.recent) = 3
           /\ \A j \in 1..3 :
                 LET p == ThreeMonthsTo(LatestMonth(db))[j]
                 IN  /\ pending.recent[j].y = p[1] /\ pending.recent[j].m = p[2]
                     /\ pending.recent[j].n = Cardinality(RowsIn(db, p))
                     /\ pending.recent[j].latest = MaxUpdate(db, RowsIn(db, p))

C11_Witness ==
    /\ WritingSummary /\ AllStd(db)
    /\ Len(pending.recent) = 3
    /\ pending.recent[1].y = 2025 /\ pending.recent[1].m = 1 /\ pending.recent[1].n = 1
    /\ pending.recent[2].y = 2024 /\ pending.recent[2].m = 12 /\ pending.recent[2].n = 1
    /\ pending.recent[3].y = 2024 /\ pending.recent[3].m = 11 /\ pending.recent[3].n = 0

\* the sum of the decimals entered, in cents
RECURSIVE ExactCents(_)
ExactCents(rows) == IF rows = <<>> THEN 0 ELSE Head(rows).dec + ExactCents(Tail(rows))

\* C12 as claimed: the total on a monthly page and on an annual page is the
\* exact sum of the decimals entered for its rows, to two fraction digits.
C12_TotalIsExactSum ==
    /\ page.kind = "month" => page.total = ExactCents(RowsOfMonth(amounts, page.m))
    /\ page.kind = "year" => page.total = ExactCents(amounts)

\* C13 as claimed: a run of either entry point that finds no database file ends
\* with a non-zero status, and no output directory or artifact exists after it.
C13_MissingDatabaseExitsNonZero ==
    pc = "exited" /\ ~dbfile
        => exit = "1" /\ ~outdir /\ \A k \in Keys : ~Exists(files[k])

\* C14: the connection is opened only by the first step of a run, and is closed
\* whenever no run is in progress: after a return, an early return on no data,
\* and an exception raised by a query, the renderer or a file write.
C14_ConnectionReleased ==
    [][/\ pc' \in {"idle", "exited"} => conn' = "closed"
       /\ conn = "closed" /\ conn' = "open" => pc = "idle"]_vars

C14_Witness ==
    pc = "exited" /\ mode = "gen" /\ exit = "exception" /\ failure = "write" /\ conn = "closed"

\* C15 as claimed: no sync run ends by an exception raised while a stored
\* timestamp is parsed.
C15_ParseErrorsNeverPropagate ==
    pc = "exited" /\ mode = "sync" => failure # "parse"

\* the keys the expense rows of st give: their months, their years, and AllTime
ExpectedKeys(st) ==
    LET E == {i \in RecIds : st[i].type = Expense}
    IN  {MonthKey(st[i].y, st[i].m) : i \in E} \cup {YearKey(st[i].y) : i \in E}
        \cup (IF E = {} THEN {} ELSE {AllTime})

\* C16 as claimed: the keys a sync run has compared, when it returns 0 and no
\* query failed, are exactly the months and years of the expense rows, and
\* AllTime if there is an expense row.
C16_ExaminedKeysAreThoseInTheData ==
    SyncOk /\ qfailed = "none" => Examined = ExpectedKeys(db)

\* st and st2 hold the same expense rows and differ in rows of other types only
AgreeOnExpense(st, st2) ==
    \A i \in RecIds : IF st[i].type = Expense \/ st2[i].type = Expense
                      THEN st[i] = st2[i] ELSE TRUE

\* C17: when a sync run has made its update-time queries, any table that holds
\* the same expense rows and differs in rows of other types only gives the same
\* keys with the same watermarks, the same decision for every key over the same
\* files, and the same detail rows for every key.
C17_OtherTypesDoNotInfluence ==
    pc = "scan" /\ idx = 1 /\ qfailed = "none"
        => \A st2 \in [RecIds -> RecordUniverse \cup {NoRec}] :
              AgreeOnExpense(db, st2)
              => /\ KeysOf(st2) = Worklist
                 /\ \A k \in Keys :
                       /\ needs_regeneration(WatermarkOf(st2, k), files[k].mtime)
                              = needs_regeneration(WatermarkOf(db, k), files[k].mtime)
                       /\ DetailOf(st2, k, TRUE) = DetailOf(db, k, TRUE)

C17_Witness ==
    /\ pc = "scan" /\ idx = 1 /\ qfailed = "none" /\ Len(Worklist) = 3
    /\ \E i \in RecIds : db[i].type = Other /\ db[i].upd = MaxTime
    /\ \E i \in RecIds : db[i].type = Expense /\ db[i].upd = 1 /\ db[i].y = 2025
    /\ Exists(files[AllTime])

\* the keys a run found in state r
LoggedAs(r) == {e.key : e \in {x \in log : x.result = r}}

KindCount(S, kind) == Cardinality({k \in S : k.kind = kind})

\* C18: when a sync run returns 0, generated_count is the number of files it
\* wrote, each skipped count is the number of keys of its category found fresh,
\* every key enumerated is generated, skipped or found stale without data and
\* only one of these, and the four counts together do not exceed the number of
\* keys enumerated.
C18_CountsAccountForEveryKey ==
    SyncOk
        => /\ generated_count = Cardinality(written)
           /\ written = LoggedAs("stale")
           /\ skipped_monthly = KindCount(LoggedAs("fresh"), "month")
           /\ skipped_annual = KindCount(LoggedAs("fresh"), "year")
           /\ skipped_summary = KindCount(LoggedAs("fresh"), "summary")
           /\ Examined = {KeyOf(Worklist[j]) : j \in 1..Len(Worklist)}
           /\ Cardinality(Examined) = Len(Worklist)
           /\ LoggedAs("stale") \cap LoggedAs("fresh") = {}
           /\ LoggedAs("stale") \cap LoggedAs("nodata") = {}
           /\ LoggedAs("fresh") \cap LoggedAs("nodata") = {}
           /\ generated_count + skipped_monthly + skipped_annual + skipped_summary
                  = Len(Worklist) - Cardinality(LoggedAs("nodata"))

C18_Witness ==
    /\ SyncOk /\ generated_count = 2 /\ skipped_monthly = 1 /\ skipped_annual = 1
    /\ LoggedAs("nodata") # {}

\* the watermarks a run holds for the months of year y
MonthWatermarks(y) == {monthly_times[j].w : j \in {i \in 1..Len(monthly_times) : monthly_times[i].y = y}}

\* C19 as claimed: in the tables a sync run holds, every month's year is there
\* with a watermark that is the greatest of its months', and the summary's
\* watermark is the greatest of the years'.
C19_WatermarkHierarchy ==
    pc = "scan" /\ qfailed = "none"
        => /\ \A j \in 1..Len(monthly_times) :
                 \E i \in 1..Len(annual_times) :
                     /\ annual_times[i].y = monthly_times[j].y
                     /\ annual_times[i].w >= monthly_times[j].w
           /\ \A i \in 1..Len(annual_times) :
                 /\ MonthWatermarks(annual_times[i].y) # {}
                 /\ annual_times[i].w = SetMax(MonthWatermarks(annual_times[i].y))
                 /\ summary_time >= annual_times[i].w
           /\ annual_times # <<>>
                 => summary_time = SetMax({annual_times[i].w : i \in 1..Len(annual_times)})

\* the expense rows the page of key k shows
ScopeOf(st, k) ==
    {i \in RecIds : /\ st[i].type = Expense
                    /\ \/ k.kind = "month" /\ LikeMonth(st[i], k.y, k.m)
                       \/ k.kind = "year" /\ LikeYear(st[i], k.y)
                       \/ k.kind = "summary"}

\* page d of key k shows every row of its scope in st that was last modified
\* at t or before: the row itself on a monthly page, its month's or its year's
\* line with at least that count and that update time on the others
Covers(d, k, st, t) ==
    LET ids == {i \in ScopeOf(st, k) : st[i].upd <= t}
    IN  \A i \in ids :
            IF k.kind = "month" THEN <<i, st[i].upd>> \in d.rows
            ELSE IF k.kind = "year"
            THEN \E r \in d.rows :
                     /\ r.ym = Prefix7(st[i]) /\ r.latest >= st[i].upd
                     /\ r.n >= Cardinality({j \in ids : Prefix7(st[j]) = Prefix7(st[i])})
            ELSE \E r \in d.years :
                     /\ r.y = st[i].y /\ r.latest >= st[i].upd
                     /\ r.n >= Cardinality({j \in ids : st[j].y = st[i].y})

\* C20 as claimed: with the ingestion process free to act between any two steps
\* of a sync run, every completely written artifact that a sync run is about to
\* find fresh shows every expense row of its key last modified at or before the
\* artifact's last-write time.
C20_FreshArtifactShowsEveryUpdate ==
    \A k \in Keys :
        /\ pc = "scan" /\ mode = "sync" /\ idx <= Len(Worklist)
        /\ Exists(files[k]) /\ files[k].complete
        => (k = KeyOf(Worklist[idx]) /\ ~needs_regeneration(Worklist[idx].w, files[k].mtime)
               => Covers(files[k].doc, k, db, files[k].mtime))

====
